---- MODULE Spec2Model ----
(***************************************************************************)
(* Error values of go-error-handling: the sentinels of package utils, the  *)
(* DatabaseError of package database, the fmt.Errorf wrappers of package   *)
(* wrapping, and the operations that render, unwrap, match and extract     *)
(* them.  Error values live in a heap; a pointer is an index into it, so   *)
(* identity is equality of indices and never equality of text.             *)
(***************************************************************************)
EXTENDS Integers, Sequences, FiniteSets, TLC

VARIABLES heap, err, ret, walk

vars == <<heap, err, ret, walk>>

(***************************************************************************)
(* Bounds of the model.                                                    *)
(***************************************************************************)
\* wrapping layers put on top of a root cause
MaxWraps == 2

(***************************************************************************)
(* Text: decimal rendering (%d) and zero padding (time layout fields).     *)
(***************************************************************************)
Digit(d) ==
    CASE d = 0 -> "0" [] d = 1 -> "1" [] d = 2 -> "2" [] d = 3 -> "3"
      [] d = 4 -> "4" [] d = 5 -> "5" [] d = 6 -> "6" [] d = 7 -> "7"
      [] d = 8 -> "8" [] d = 9 -> "9"

RECURSIVE Digits(_)
Digits(n) == IF n < 10 THEN Digit(n) ELSE Digits(n \div 10) \o Digit(n % 10)

\* the %d verb
Itoa(n) == IF n < 0 THEN "-" \o Digits(0 - n) ELSE Digits(n)

Pad2(n) == IF n < 10 THEN "0" \o Digits(n) ELSE Digits(n)

Pad4(n) ==
    IF n < 10 THEN "000" \o Digits(n)
    ELSE IF n < 100 THEN "00" \o Digits(n)
    ELSE IF n < 1000 THEN "0" \o Digits(n)
    ELSE Digits(n)

\* the "Z07:00" element of the layout: Z for UTC, else a signed hh:mm offset
ZoneText(off) ==
    IF off = 0 THEN "Z"
    ELSE IF off < 0
         THEN "-" \o Pad2((0 - off) \div 60) \o ":" \o Pad2((0 - off) % 60)
         ELSE "+" \o Pad2(off \div 60) \o ":" \o Pad2(off % 60)

\* time.Time.Format(time.RFC3339), layout "2006-01-02T15:04:05Z07:00"
FormatRFC3339(t) ==
    Pad4(t.year) \o "-" \o Pad2(t.month) \o "-" \o Pad2(t.day) \o "T"
      \o Pad2(t.hour) \o ":" \o Pad2(t.min) \o ":" \o Pad2(t.sec)
      \o ZoneText(t.off)

(***************************************************************************)
(* Error values.  Nil is the nil error; every other error is a heap index. *)
(***************************************************************************)
Nil == 0

\* package utils: the sentinels, created once at package initialisation
ErrUserNotFound == 1
ErrDuplicateEmail == 2
ErrInvalidPassword == 3
ErrUnauthorized == 4
ErrDatabaseTimeout == 5
\* os.ErrNotExist, and the syscall.Errno values a failed read carries
ErrNotExist == 6
ENOENT == 7
EACCES == 8

Sentinels ==
    {ErrUserNotFound, ErrDuplicateEmail, ErrInvalidPassword,
     ErrUnauthorized, ErrDatabaseTimeout}

\* errors.New(text): a pointer to a fresh errorString
ErrorString(s) == [kind |-> "errorString", s |-> s]

\* syscall.Errno is a value type: one heap slot per value, shared by all uses
ErrnoValue(s) == [kind |-> "Errno", s |-> s]

\* fmt.Errorf with one %w operand: *fmt.wrapError{msg, err}
WrapError(msg, e) == [kind |-> "wrapError", msg |-> msg, err |-> e]

\* &database.DatabaseError{...}
DatabaseError(op, table, query, e, ts, retryable) ==
    [kind |-> "DatabaseError", Operation |-> op, Table |-> table,
     Query |-> query, Err |-> e, Timestamp |-> ts, Retryable |-> retryable]

\* *fs.PathError, what os.ReadFile returns
PathError(op, path, e) == [kind |-> "PathError", Op |-> op, Path |-> path, Err |-> e]

\* &custom.ValidationError{...}; Value is an interface{}, kept with its type
ValidationError(field, message, code, value) ==
    [kind |-> "ValidationError", Field |-> field, Message |-> message,
     Code |-> code, Value |-> value]

StaticHeap ==
    <<ErrorString("user not found"),
      ErrorString("email already exists"),
      ErrorString("invalid password"),
      ErrorString("unauthorized access"),
      ErrorString("database operation timed out"),
      ErrorString("file does not exist"),
      ErrnoValue("no such file or directory"),
      ErrnoValue("permission denied")>>

Ids(h) == 1..Len(h)

(***************************************************************************)
(* Unwrap: the cause accessor of each type that has one.                   *)
(***************************************************************************)
\* the types whose method set holds Unwrap() error
HasUnwrap(o) == o.kind \in {"wrapError", "DatabaseError", "PathError"}

\* an Unwrap that drops the cause
DatabaseError_Unwrap_Drops(o) == Nil

\* (*DatabaseError).Unwrap
DatabaseError_Unwrap(o) == o.Err

\* x.Unwrap() of any type that has it
UnwrapOf(o) ==
    CASE o.kind = "DatabaseError" -> DatabaseError_Unwrap(o)
      [] o.kind = "wrapError" -> o.err
      [] o.kind = "PathError" -> o.Err

RECURSIVE Unwramp_ToRoot(_, _)
\* an unwrap that keeps going to the root cause
Unwramp_ToRoot(h, e) ==
    IF e # Nil /\ HasUnwrap(h[e])
    THEN LET c == UnwrapOf(h[e]) IN
         IF c # Nil /\ HasUnwrap(h[c]) THEN Unwramp_ToRoot(h, c) ELSE c
    ELSE Nil

\* database.Unwramp
Unwramp(h, e) ==
    IF e # Nil /\ HasUnwrap(h[e]) THEN UnwrapOf(h[e]) ELSE Nil

(***************************************************************************)
(* Rendering: Error() of every type, and the fmt verbs it is built from.   *)
(* A format is its sequence of literal pieces and verbs; an operand is     *)
(* tagged with its dynamic type, as fmt sees it.                           *)
(***************************************************************************)
StrArg(s) == [t |-> "string", v |-> s]
BoolArg(b) == [t |-> "bool", v |-> b]
IntArg(n) == [t |-> "int", v |-> n]
ErrArg(e) == [t |-> "error", v |-> e]
\* a nil interface{} value
NilArg == [t |-> "nil", v |-> Nil]
\* a float64 with at most two decimals, held as its number of hundredths
FloatArg(c) == [t |-> "float64", v |-> c]

\* %v of a float64: the shortest decimal that reads back, so trailing zeros
\* and a zero fraction are not printed
FormatFloat(c) ==
    LET m == IF c < 0 THEN 0 - c ELSE c
        r == m % 100
    IN  (IF c < 0 THEN "-" ELSE "") \o Digits(m \div 100)
          \o (IF r = 0 THEN ""
              ELSE IF r % 10 = 0 THEN "." \o Digit(r \div 10)
              ELSE "." \o Pad2(r))

Verbs == {"%s", "%v", "%d", "%w"}

RECURSIVE ErrorText(_, _)

\* one operand under one verb: a nil error prints <nil>, an error prints its
\* Error(), a bool prints true or false, an int prints in decimal
FormatArg(h, verb, a) ==
    CASE a.t = "string" -> a.v
      [] a.t = "bool" -> (IF a.v THEN "true" ELSE "false")
      [] a.t = "int" -> Itoa(a.v)
      [] a.t = "error" -> (IF a.v = Nil THEN "<nil>" ELSE ErrorText(h, a.v))
      [] a.t = "nil" -> "<nil>"
      [] a.t = "float64" -> FormatFloat(a.v)

RECURSIVE Sprintf(_, _, _)
\* fmt.Sprintf: literal pieces are copied, each verb consumes the next operand
Sprintf(h, format, args) ==
    IF format = <<>> THEN ""
    ELSE IF Head(format) \in Verbs
         THEN FormatArg(h, Head(format), Head(args))
                \o Sprintf(h, Tail(format), Tail(args))
         ELSE Head(format) \o Sprintf(h, Tail(format), args)

\* %v of an error operand
CauseTextOf(h, e) == FormatArg(h, "%v", ErrArg(e))

\* "database error [%s on %s]: %v (retryable: %v, timestamp: %s)"
DatabaseErrorFormat ==
    <<"database error [", "%s", " on ", "%s", "]: ", "%v",
      " (retryable: ", "%v", ", timestamp: ", "%s", ")">>

\* a rendering that prints Query where Table belongs
DatabaseError_Error_WithQuery(h, o) ==
    Sprintf(h, DatabaseErrorFormat,
            <<StrArg(o.Operation), StrArg(o.Query), ErrArg(o.Err),
              BoolArg(o.Retryable), StrArg(FormatRFC3339(o.Timestamp))>>)

\* the operands in another order: Table where Operation belongs
DatabaseError_Error_Swapped(h, o) ==
    Sprintf(h, DatabaseErrorFormat,
            <<StrArg(o.Table), StrArg(o.Operation), ErrArg(o.Err),
              BoolArg(o.Retryable), StrArg(FormatRFC3339(o.Timestamp))>>)

\* (*DatabaseError).Error
DatabaseError_Error(h, o) ==
    Sprintf(h, DatabaseErrorFormat,
            <<StrArg(o.Operation), StrArg(o.Table), ErrArg(o.Err),
              BoolArg(o.Retryable), StrArg(FormatRFC3339(o.Timestamp))>>)

\* a rendering that prints a nil Value as nothing
ValidationError_Error_NilEmpty(h, o) ==
    Sprintf(h, <<"Validation error on field '", "%s", "': ", "%s",
                 " (code: ", "%d", ", value: ", "%v", ")">>,
            <<StrArg(o.Field), StrArg(o.Message), IntArg(o.Code),
              IF o.Value = NilArg THEN StrArg("") ELSE o.Value>>)

\* (*ValidationError).Error
ValidationError_Error(h, o) ==
    Sprintf(h, <<"Validation error on field '", "%s", "': ", "%s",
                 " (code: ", "%d", ", value: ", "%v", ")">>,
            <<StrArg(o.Field), StrArg(o.Message), IntArg(o.Code), o.Value>>)

\* err.Error() by dynamic type
ErrorText(h, e) ==
    LET o == h[e] IN
    CASE o.kind = "errorString" -> o.s
      [] o.kind = "Errno" -> o.s
      [] o.kind = "wrapError" -> o.msg
      [] o.kind = "DatabaseError" -> DatabaseError_Error(h, o)
      [] o.kind = "PathError" -> o.Op \o " " \o o.Path \o ": " \o ErrorText(h, o.Err)
      [] o.kind = "ValidationError" -> ValidationError_Error(h, o)

(***************************************************************************)
(* errors.Is and errors.As, as the program calls them.                     *)
(***************************************************************************)
\* syscall.Errno.Is: the only Is method among the program's error types
Errno_Is(e, target) == target = ErrNotExist /\ e = ENOENT

\* x.Is(target) when x has the method
IsMethod(h, e, target) == h[e].kind = "Errno" /\ Errno_Is(e, target)

\* err == target on interface values: pointers compare by address, Errno by
\* value, and each Errno value has one heap slot
SameError(a, b) == a = b

\* a match that never follows Unwrap()
IsLoop_NoUnwrap(h, e, target) == SameError(e, target)

RECURSIVE IsLoop_ByText(_, _, _)
\* a match on the rendered text instead of the value
IsLoop_ByText(h, e, target) ==
    IF ErrorText(h, e) = ErrorText(h, target) THEN TRUE
    ELSE IF HasUnwrap(h[e])
         THEN LET c == UnwrapOf(h[e]) IN
              IF c = Nil THEN FALSE ELSE IsLoop_ByText(h, c, target)
         ELSE FALSE

\* a match on the dynamic type alone
IsLoop_ByKind(h, e, target) == h[e].kind = h[target].kind

RECURSIVE IsLoop(_, _, _)
\* the loop of errors.Is: compare, ask the Is method, follow Unwrap()
IsLoop(h, e, target) ==
    IF SameError(e, target) THEN TRUE
    ELSE IF IsMethod(h, e, target) THEN TRUE
    ELSE IF HasUnwrap(h[e])
         THEN LET c == UnwrapOf(h[e]) IN
              IF c = Nil THEN FALSE ELSE IsLoop(h, c, target)
         ELSE FALSE

\* errors.Is(err, target)
Is(h, e, target) ==
    IF e = Nil \/ target = Nil THEN e = target ELSE IsLoop(h, e, target)

RECURSIVE AsLoop_Innermost(_, _)
\* an extraction that keeps following causes and returns the last match
AsLoop_Innermost(h, e) ==
    LET inner == IF HasUnwrap(h[e]) /\ UnwrapOf(h[e]) # Nil
                 THEN AsLoop_Innermost(h, UnwrapOf(h[e]))
                 ELSE Nil
    IN  IF inner # Nil THEN inner
        ELSE IF h[e].kind = "DatabaseError" THEN e ELSE Nil

\* an extraction that looks at the outermost error only
AsLoop_NoUnwrap(h, e) == IF h[e].kind = "DatabaseError" THEN e ELSE Nil

RECURSIVE AsLoop(_, _)
\* the loop of errors.As: test the type, follow Unwrap()
AsLoop(h, e) ==
    IF h[e].kind = "DatabaseError" THEN e
    ELSE IF HasUnwrap(h[e])
         THEN LET c == UnwrapOf(h[e]) IN
              IF c = Nil THEN Nil ELSE AsLoop(h, c)
         ELSE Nil

\* errors.As(err, &dbErr) with dbErr a *database.DatabaseError: the pointer
\* stored in dbErr, Nil when As returns false
As(h, e) == IF e = Nil THEN Nil ELSE AsLoop(h, e)

(***************************************************************************)
(* The inputs the operations are exercised on.                             *)
(***************************************************************************)
\* texts given to errors.New: one equal to a sentinel's text, one not
Texts == {"user not found", "connection timeout"}

\* the fmt.Errorf format of a wrapping layer: "operation failed: %w"
WrapFormat == <<"operation failed: ", "%w">>

\* the DatabaseError literals: Operation, Table, Query, Retryable
DBLiterals ==
    { [Operation |-> "SELECT", Table |-> "users",
       Query |-> "SELECT * FROM users WHERE id = ?", Retryable |-> TRUE],
      [Operation |-> "INSERT", Table |-> "products",
       Query |-> "", Retryable |-> FALSE],
      [Operation |-> "SELECT", Table |-> "users",
       Query |-> "SELECT * FROM users LIMIT 10", Retryable |-> TRUE] }

\* instants the clock may show: one in UTC, one in a zone east of it
Times ==
    { [year |-> 2023, month |-> 10, day |-> 5, hour |-> 10, min |-> 30,
       sec |-> 0, off |-> 0],
      [year |-> 2024, month |-> 2, day |-> 29, hour |-> 23, min |-> 59,
       sec |-> 7, off |-> 360] }

(***************************************************************************)
(* State.  heap holds every error value made so far; err is the error the  *)
(* program currently holds (the one being returned up the call stack);     *)
(* ret is the last completed call and its result; walk is a chain walk in  *)
(* progress.                                                               *)
(***************************************************************************)
NoRet == [op |-> "none", err |-> Nil, target |-> Nil, val |-> Nil]

Call(op, e, target, val) == [op |-> op, err |-> e, target |-> target, val |-> val]

IdleWalk ==
    [kind |-> "none", status |-> "idle", from |-> Nil, cur |-> Nil,
     levels |-> <<>>, path |-> <<>>, depth |-> 0]

Init ==
    /\ heap = StaticHeap
    /\ err = Nil
    /\ ret = NoRet
    /\ walk = IdleWalk

RECURSIVE EndsWithin(_, _, _)
\* whether following causes from e reaches the end of the chain within fuel hops
EndsWithin(h, e, fuel) ==
    IF e = Nil THEN TRUE
    ELSE IF fuel = 0 THEN FALSE
    ELSE IF HasUnwrap(h[e]) THEN EndsWithin(h, UnwrapOf(h[e]), fuel - 1)
    ELSE TRUE

\* the chain of causes of e is finite: Error() on it returns
Acyclic(h, e) == EndsWithin(h, e, Len(h))

RECURSIVE Chain(_, _)
\* the elements met from e by following causes, outermost first (acyclic e)
Chain(h, e) ==
    IF e = Nil THEN <<>>
    ELSE IF HasUnwrap(h[e]) THEN <<e>> \o Chain(h, UnwrapOf(h[e]))
    ELSE <<e>>

ChainSet(h, e) == {Chain(h, e)[i] : i \in 1..Len(Chain(h, e))}

\* wrapping layers above the root cause of e
Wraps(h, e) == Len(Chain(h, e)) - 1

\* the root cause of e: the last element of its chain
Root(h, e) == Chain(h, e)[Len(Chain(h, e))]

(***************************************************************************)
(* Construction.                                                           *)
(***************************************************************************)
\* return utils.ErrX: the caller holds the sentinel itself
ReturnSentinel(s) ==
    /\ err = Nil
    /\ err' = s
    /\ ret' = Call("return", s, Nil, s)
    /\ UNCHANGED heap
    /\ walk' = IdleWalk

\* errors.New(text)
ErrorsNew(text) ==
    /\ err = Nil
    /\ heap' = Append(heap, ErrorString(text))
    /\ err' = Len(heap) + 1
    /\ ret' = Call("errors.New", Nil, Nil, Len(heap) + 1)
    /\ walk' = IdleWalk

\* an annotation written into the held error instead of a new wrapper
Errorf_InPlace ==
    /\ err # Nil
    /\ Acyclic(heap, err)
    /\ Wraps(heap, err) < MaxWraps
    /\ heap' = [heap EXCEPT ![err] =
                   ErrorString(Sprintf(heap, WrapFormat, <<ErrArg(err)>>))]
    /\ err' = err
    /\ ret' = Call("fmt.Errorf", err, Nil, err)
    /\ walk' = IdleWalk
\* fmt.Errorf("operation failed: %w", err)
Errorf ==
    /\ err # Nil
    /\ Acyclic(heap, err)
    /\ Wraps(heap, err) < MaxWraps
    /\ heap' = Append(heap, WrapError(Sprintf(heap, WrapFormat, <<ErrArg(err)>>), err))
    /\ err' = Len(heap) + 1
    /\ ret' = Call("fmt.Errorf", err, Nil, Len(heap) + 1)
    /\ walk' = IdleWalk

\* &DatabaseError{Operation: .., Table: .., Query: .., Err: err,
\*                Timestamp: time.Now(), Retryable: ..}
NewDatabaseError(lit, now) ==
    /\ Acyclic(heap, err)
    /\ err # Nil => Wraps(heap, err) < MaxWraps
    /\ heap' = Append(heap, DatabaseError(lit.Operation, lit.Table, lit.Query,
                                          err, now, lit.Retryable))
    /\ err' = Len(heap) + 1
    /\ ret' = Call("DatabaseError", err, Nil, Len(heap) + 1)
    /\ walk' = IdleWalk

\* an Error() that stamps the DatabaseError with the time of the call
CallError_Restamps ==
    /\ err # Nil
    /\ Acyclic(heap, err)
    /\ heap' = IF heap[err].kind = "DatabaseError"
               THEN [heap EXCEPT ![err].Timestamp =
                        CHOOSE t \in Times : t # heap[err].Timestamp]
               ELSE heap
    /\ ret' = Call("Error", err, Nil, ErrorText(heap', err))
    /\ walk' = IdleWalk
    /\ UNCHANGED err

(***************************************************************************)
(* Calls on the held error.  Each of its causes was the held error when it *)
(* was made, so every element of every chain is inspected.                 *)
(***************************************************************************)
\* err.Error()
CallError ==
    /\ err # Nil /\ Acyclic(heap, err)
    /\ ret' = Call("Error", err, Nil, ErrorText(heap, err))
    /\ walk' = IdleWalk
    /\ UNCHANGED <<heap, err>>

\* dbErr.Unwrap()
CallUnwrap ==
    /\ err # Nil /\ heap[err].kind = "DatabaseError"
    /\ ret' = Call("Unwrap", err, Nil, DatabaseError_Unwrap(heap[err]))
    /\ walk' = IdleWalk
    /\ UNCHANGED <<heap, err>>

\* database.Unwramp(err)
CallUnwramp ==
    /\ ret' = Call("Unwramp", err, Nil, Unwramp(heap, err))
    /\ walk' = IdleWalk
    /\ UNCHANGED <<heap, err>>

\* the errors a caller compares against: sentinels and other plain errors
Targets == {t \in Ids(heap) : heap[t].kind = "errorString"}

\* errors.Is(err, target)
CallIs(target) ==
    /\ Acyclic(heap, err)
    /\ ret' = Call("Is", err, target, Is(heap, err, target))
    /\ walk' = IdleWalk
    /\ UNCHANGED <<heap, err>>

\* var dbErr *DatabaseError; errors.As(err, &dbErr)
CallAs ==
    /\ ret' = Call("As", err, Nil, As(heap, err))
    /\ walk' = IdleWalk
    /\ UNCHANGED <<heap, err>>

(***************************************************************************)
(* Chain walks: the two loops that follow Unwrap() from the held error.    *)
(***************************************************************************)
\* the depth at which the counting loop gives up
MaxDepth == 10

StartWalk(kind) ==
    [kind |-> kind, status |-> "walking", from |-> err, cur |-> err,
     levels |-> <<>>, path |-> <<>>, depth |-> 0]

\* currentErr := err, before the loop that collects each level's text
WalkLevelsStart ==
    /\ err # Nil /\ walk.status # "walking"
    /\ walk' = StartWalk("levels")
    /\ ret' = NoRet
    /\ UNCHANGED <<heap, err>>

\* currentErr = err; depth := 0, before the loop that counts the levels
WalkDepthStart ==
    /\ err # Nil /\ walk.status # "walking"
    /\ walk' = StartWalk("depth")
    /\ ret' = NoRet
    /\ UNCHANGED <<heap, err>>

\* one iteration of: for currentErr != nil { levels = append(levels,
\* currentErr.Error()); if it has Unwrap() { currentErr = Unwrap() } else { break } }
\* Error() on a chain that refers back to itself recurses until the stack is gone.
LevelsStep(w) ==
    IF w.cur = Nil THEN [w EXCEPT !.status = "done"]
    ELSE IF ~Acyclic(heap, w.cur) THEN [w EXCEPT !.status = "overflow"]
    ELSE LET v == [w EXCEPT !.levels = Append(@, ErrorText(heap, w.cur)),
                            !.path = Append(@, w.cur)]
         IN  IF HasUnwrap(heap[w.cur])
             THEN [v EXCEPT !.cur = UnwrapOf(heap[w.cur])]
             ELSE [v EXCEPT !.status = "done"]

\* a counting loop that never moves currentErr down the chain
DepthStep_NoAdvance(w) ==
    IF w.cur = Nil THEN [w EXCEPT !.status = "done"]
    ELSE LET v == [w EXCEPT !.depth = @ + 1, !.path = Append(@, w.cur)]
         IN  IF v.depth > MaxDepth THEN [v EXCEPT !.status = "tooDeep"]
             ELSE IF HasUnwrap(heap[w.cur])
                  THEN v
                  ELSE [v EXCEPT !.status = "done"]

\* one iteration of: for currentErr != nil { depth++; if depth > 10 { t.Error(
\* "Error chain too deep, possible infinite loop"); break }; unwrap or break }
DepthStep(w) ==
    IF w.cur = Nil THEN [w EXCEPT !.status = "done"]
    ELSE LET v == [w EXCEPT !.depth = @ + 1, !.path = Append(@, w.cur)]
         IN  IF v.depth > MaxDepth THEN [v EXCEPT !.status = "tooDeep"]
             ELSE IF HasUnwrap(heap[w.cur])
                  THEN [v EXCEPT !.cur = UnwrapOf(heap[w.cur])]
                  ELSE [v EXCEPT !.status = "done"]

WalkStep ==
    /\ walk.status = "walking"
    /\ walk' = IF walk.kind = "levels" THEN LevelsStep(walk) ELSE DepthStep(walk)
    /\ UNCHANGED <<heap, err, ret>>

(***************************************************************************)
(* package wrapping: three layers over os.ReadFile.                        *)
(***************************************************************************)
UserIDs == {1, 42, 123, 999}

\* what os.ReadFile may meet: Nil when the file is read, else the Errno
ReadFaults == {Nil, ENOENT, EACCES}

\* a function's result: the heap after it, and the error it returns
Result(h, e) == [heap |-> h, err |-> e]

\* a read whose PathError holds os.ErrNotExist itself for a missing file
ReadFile_PortableError(h, filename, fault) ==
    IF fault = Nil THEN Result(h, Nil)
    ELSE Result(Append(h, PathError("open", filename,
                                    IF fault = ENOENT THEN ErrNotExist ELSE fault)),
                Len(h) + 1)

\* os.ReadFile(filename): nil, or &fs.PathError{"open", filename, errno}
ReadFile(h, filename, fault) ==
    IF fault = Nil THEN Result(h, Nil)
    ELSE Result(Append(h, PathError("open", filename, fault)), Len(h) + 1)

\* fmt.Errorf(format, operand, e) where the last verb is %w and e is not nil
WrapWith(h, format, operand, e) ==
    Result(Append(h, WrapError(Sprintf(h, format, <<operand, ErrArg(e)>>), e)),
           Len(h) + 1)

\* fmt.Sprintf("user_%d.json", userID)
UserFile(h, userID) == Sprintf(h, <<"user_", "%d", ".json">>, <<IntArg(userID)>>)

\* the file names readConfigFile is called with directly
Filenames == {"user_123.json", "definitely_does_not_exist_12345.json"}

\* the read error formatted with %v: its text is kept, the value is not
readConfigFile_NoCause(h, filename, fault) ==
    LET r == ReadFile(h, filename, fault) IN
    IF r.err # Nil
    THEN Result(Append(r.heap,
                       ErrorString(Sprintf(r.heap,
                                           <<"failed to read config file ", "%s", ": ", "%v">>,
                                           <<StrArg(filename), ErrArg(r.err)>>))),
                Len(r.heap) + 1)
    ELSE Result(r.heap, Nil)

readConfigFile(h, filename, fault) ==
    LET r == ReadFile(h, filename, fault) IN
    IF r.err # Nil
    THEN WrapWith(r.heap, <<"failed to read config file ", "%s", ": ", "%w">>,
                  StrArg(filename), r.err)
    ELSE Result(r.heap, Nil)

\* a layer that hands the lower error on without wrapping it
loadUserConfig_NoWrap(h, userID, fault) ==
    readConfigFile(h, Sprintf(h, <<"user_", "%d", ".json">>, <<IntArg(userID)>>), fault)

loadUserConfig(h, userID, fault) ==
    LET filename == Sprintf(h, <<"user_", "%d", ".json">>, <<IntArg(userID)>>)
        r == readConfigFile(h, filename, fault)
    IN  IF r.err # Nil
        THEN WrapWith(r.heap, <<"failed to load config for user ", "%d", ": ", "%w">>,
                      IntArg(userID), r.err)
        ELSE Result(r.heap, Nil)

\* the top layer without the user ID in its context
ProcessUserData_NoID(h, userID, fault) ==
    LET r == loadUserConfig(h, userID, fault) IN
    IF r.err # Nil
    THEN Result(Append(r.heap,
                       WrapError(Sprintf(r.heap, <<"failed to process user: ", "%w">>,
                                         <<ErrArg(r.err)>>), r.err)),
                Len(r.heap) + 1)
    ELSE Result(r.heap, Nil)

\* the top layer wrapping the cause of the error it was handed
ProcessUserData_SkipsLayer(h, userID, fault) ==
    LET r == loadUserConfig(h, userID, fault) IN
    IF r.err # Nil
    THEN WrapWith(r.heap, <<"failed to process user ", "%d", ": ", "%w">>,
                  IntArg(userID), UnwrapOf(r.heap[r.err]))
    ELSE Result(r.heap, Nil)

ProcessUserData(h, userID, fault) ==
    LET r == loadUserConfig(h, userID, fault) IN
    IF r.err # Nil
    THEN WrapWith(r.heap, <<"failed to process user ", "%d", ": ", "%w">>,
                  IntArg(userID), r.err)
    ELSE Result(r.heap, Nil)

\* err := wrapping.ProcessUserData(userID)
CallProcessUserData(userID, fault) ==
    /\ err = Nil
    /\ LET r == ProcessUserData(heap, userID, fault) IN
       /\ heap' = r.heap
       /\ err' = r.err
       /\ ret' = Call("ProcessUserData", r.err, Nil,
                      [userID |-> userID, fault |-> fault,
                       below |-> loadUserConfig(heap, userID, fault).err])
    /\ walk' = IdleWalk

\* err := loadUserConfig(userID)
CallLoadUserConfig(userID, fault) ==
    /\ err = Nil
    /\ LET r == loadUserConfig(heap, userID, fault) IN
       /\ heap' = r.heap
       /\ err' = r.err
       /\ ret' = Call("loadUserConfig", r.err, Nil,
                      [userID |-> userID, fault |-> fault,
                       below |-> readConfigFile(heap, UserFile(heap, userID), fault).err])
    /\ walk' = IdleWalk

\* err := readConfigFile(filename)
CallReadConfigFile(filename, fault) ==
    /\ err = Nil
    /\ LET r == readConfigFile(heap, filename, fault) IN
       /\ heap' = r.heap
       /\ err' = r.err
       /\ ret' = Call("readConfigFile", r.err, Nil,
                      [filename |-> filename, fault |-> fault,
                       below |-> ReadFile(heap, filename, fault).err])
    /\ walk' = IdleWalk

(***************************************************************************)
(* package user, package formatted and package example: validation and     *)
(* lookup functions that return an error value or nil.                     *)
(***************************************************************************)
Ages == {-100, -1, 0, 25, 130, 131, 200}

Emails == {"", "test@example.com", "a@b.c"}

\* user.User values
Users == [ID : {1}, Email : Emails, Age : Ages]

Limits == {-1, 0, 1, 10, 100, 1000}

Values == {-100, -1, 0, 50, 100, 101, 1000}

\* return &ValidationError{...}
NewValidationError(h, field, message, code, value) ==
    Result(Append(h, ValidationError(field, message, code, value)), Len(h) + 1)

\* an upper bound that rejects 130 itself
ValidateUser_ExclusiveBound(h, user) ==
    IF user.Age < 0
    THEN NewValidationError(h, "Age", "Age cannot be negative", 2001, IntArg(user.Age))
    ELSE IF user.Age >= 130
    THEN NewValidationError(h, "Age", "Age cannot be greater than 130", 2002,
                            IntArg(user.Age))
    ELSE IF user.Email = ""
    THEN NewValidationError(h, "Email", "Email cannot be empty", 2003,
                            StrArg(user.Email))
    ELSE Result(h, Nil)

\* the email check placed before the age checks
ValidateUser_EmailFirst(h, user) ==
    IF user.Email = ""
    THEN NewValidationError(h, "Email", "Email cannot be empty", 2003,
                            StrArg(user.Email))
    ELSE IF user.Age < 0
    THEN NewValidationError(h, "Age", "Age cannot be negative", 2001, IntArg(user.Age))
    ELSE IF user.Age > 130
    THEN NewValidationError(h, "Age", "Age cannot be greater than 130", 2002,
                            IntArg(user.Age))
    ELSE Result(h, Nil)

\* user.ValidateUser
ValidateUser(h, user) ==
    IF user.Age < 0
    THEN NewValidationError(h, "Age", "Age cannot be negative", 2001, IntArg(user.Age))
    ELSE IF user.Age > 130
    THEN NewValidationError(h, "Age", "Age cannot be greater than 130", 2002,
                            IntArg(user.Age))
    ELSE IF user.Email = ""
    THEN NewValidationError(h, "Email", "Email cannot be empty", 2003,
                            StrArg(user.Email))
    ELSE Result(h, Nil)

\* a lookup's result: the heap after it, the *User and the error
Found(h, u, e) == [heap |-> h, user |-> u, err |-> e]

\* the sentinel formatted with %v: its text is kept, the value is not
FindUserByEmail_NoWrap(h, email) ==
    IF email = ""
    THEN Found(Append(h, ErrorString(Sprintf(h, <<"email cannot be empty: ", "%v">>,
                                             <<ErrArg(ErrUserNotFound)>>))),
               Nil, Len(h) + 1)
    ELSE Found(h, Nil, ErrUserNotFound)

\* the empty-email context written into the sentinel instead of a wrapper
FindUserByEmail_Annotates(h, email) ==
    IF email = ""
    THEN Found([h EXCEPT ![ErrUserNotFound] =
                   ErrorString(Sprintf(h, <<"email cannot be empty: ", "%v">>,
                                       <<ErrArg(ErrUserNotFound)>>))],
               Nil, ErrUserNotFound)
    ELSE Found(h, Nil, ErrUserNotFound)

\* user.FindUserByEmail
FindUserByEmail(h, email) ==
    IF email = ""
    THEN Found(Append(h, WrapError(Sprintf(h, <<"email cannot be empty: ", "%w">>,
                                           <<ErrArg(ErrUserNotFound)>>),
                                   ErrUserNotFound)),
               Nil, Len(h) + 1)
    ELSE Found(h, Nil, ErrUserNotFound)

\* a query text that does not take the limit it was given
QueryUsers_FixedLimit(h, limit, now) ==
    LET h1 == Append(h, ErrorString("connection timeout")) IN
    Result(Append(h1, DatabaseError("SELECT", "users", "SELECT * FROM users LIMIT 10",
                                    Len(h1), now, TRUE)),
           Len(h1) + 1)

\* user.QueryUsers; now is what time.Now() returns
QueryUsers(h, limit, now) ==
    LET h1 == Append(h, ErrorString("connection timeout")) IN
    Result(Append(h1, DatabaseError("SELECT", "users",
                                    Sprintf(h, <<"SELECT * FROM users LIMIT ", "%d">>,
                                            <<IntArg(limit)>>),
                                    Len(h1), now, TRUE)),
           Len(h1) + 1)

\* fmt.Errorf without %w: an error that holds the formatted text only
ErrorfText(h, format, args) ==
    Result(Append(h, ErrorString(Sprintf(h, format, args))), Len(h) + 1)

\* an upper bound that rejects 130 itself
ValidateAge_ExclusiveBound(h, age) ==
    IF age < 0
    THEN ErrorfText(h, <<"invalid age: ", "%d", ". Age cannot be negative">>,
                    <<IntArg(age)>>)
    ELSE IF age >= 130
    THEN ErrorfText(h, <<"invalid age: ", "%d", ". Age cannot be greater than 130">>,
                    <<IntArg(age)>>)
    ELSE Result(h, Nil)

\* a lower bound that rejects 0 itself
ValidateAge_ZeroRejected(h, age) ==
    IF age <= 0
    THEN ErrorfText(h, <<"invalid age: ", "%d", ". Age cannot be negative">>,
                    <<IntArg(age)>>)
    ELSE IF age > 130
    THEN ErrorfText(h, <<"invalid age: ", "%d", ". Age cannot be greater than 130">>,
                    <<IntArg(age)>>)
    ELSE Result(h, Nil)

\* formatted.ValidateAge
ValidateAge(h, age) ==
    IF age < 0
    THEN ErrorfText(h, <<"invalid age: ", "%d", ". Age cannot be negative">>,
                    <<IntArg(age)>>)
    ELSE IF age > 130
    THEN ErrorfText(h, <<"invalid age: ", "%d", ". Age cannot be greater than 130">>,
                    <<IntArg(age)>>)
    ELSE Result(h, Nil)

\* one code for both rejections
CustomErrorExample_SameCode(h, value) ==
    IF value < 0
    THEN NewValidationError(h, "value", "Value cannot be negative", 1001, IntArg(value))
    ELSE IF value > 100
    THEN NewValidationError(h, "value", "Value cannot be greater than 100", 1001,
                            IntArg(value))
    ELSE Result(h, Nil)

\* example.CustomErrorExample
CustomErrorExample(h, value) ==
    IF value < 0
    THEN NewValidationError(h, "value", "Value cannot be negative", 1001, IntArg(value))
    ELSE IF value > 100
    THEN NewValidationError(h, "value", "Value cannot be greater than 100", 1002,
                            IntArg(value))
    ELSE Result(h, Nil)

\* err := user.ValidateUser(u)
CallValidateUser(user) ==
    /\ err = Nil
    /\ LET r == ValidateUser(heap, user) IN
       /\ heap' = r.heap
       /\ err' = r.err
       /\ ret' = Call("ValidateUser", r.err, Nil, user)
    /\ walk' = IdleWalk

\* u, err := user.FindUserByEmail(email)
CallFindUserByEmail(email) ==
    /\ err = Nil
    /\ LET r == FindUserByEmail(heap, email) IN
       /\ heap' = r.heap
       /\ err' = r.err
       /\ ret' = Call("FindUserByEmail", r.err, Nil, [email |-> email, user |-> r.user])
    /\ walk' = IdleWalk

\* err := user.QueryUsers(limit)
CallQueryUsers(limit, now) ==
    /\ err = Nil
    /\ LET r == QueryUsers(heap, limit, now) IN
       /\ heap' = r.heap
       /\ err' = r.err
       /\ ret' = Call("QueryUsers", r.err, Nil, [limit |-> limit, now |-> now])
    /\ walk' = IdleWalk

\* err := formatted.ValidateAge(age)
CallValidateAge(age) ==
    /\ err = Nil
    /\ LET r == ValidateAge(heap, age) IN
       /\ heap' = r.heap
       /\ err' = r.err
       /\ ret' = Call("ValidateAge", r.err, Nil, age)
    /\ walk' = IdleWalk

\* err := example.CustomErrorExample(value)
CallCustomErrorExample(value) ==
    /\ err = Nil
    /\ LET r == CustomErrorExample(heap, value) IN
       /\ heap' = r.heap
       /\ err' = r.err
       /\ ret' = Call("CustomErrorExample", r.err, Nil, value)
    /\ walk' = IdleWalk

(***************************************************************************)
(* Two callers at once.  Each builds one error with FindUserByEmail or     *)
(* QueryUsers and then renders, matches and unwraps it, one call at a      *)
(* time, in any interleaving with the other.  Here err and ret hold one    *)
(* entry per caller.  Beside what a call returns on the shared heap, ret   *)
(* records what the same call returns when the caller runs alone: solo is  *)
(* the caller's heap and held error in that run.                           *)
(***************************************************************************)
Procs == {"p", "q"}

ConcEmails == {"", "a@b.c"}

ConcLimits == {10}

ConcTargets == {ErrUserNotFound, ErrDatabaseTimeout}

Solo(h, e) == [heap |-> h, err |-> e]

\* what a caller can tell about an error value: which package-level value it
\* is, if any, its dynamic type and its text
Seen(h, e) ==
    IF e = Nil THEN [static |-> Nil, kind |-> "nil", text |-> "<nil>"]
    ELSE [static |-> (IF e \in Ids(StaticHeap) THEN e ELSE Nil),
          kind |-> h[e].kind, text |-> ErrorText(h, e)]

Did(op, val, alone, solo) == [op |-> op, val |-> val, alone |-> alone, solo |-> solo]

InitConc ==
    /\ heap = StaticHeap
    /\ err = [p \in Procs |-> Nil]
    /\ ret = [p \in Procs |-> Did("none", Nil, Nil, Solo(StaticHeap, Nil))]
    /\ walk = IdleWalk

\* _, err := user.FindUserByEmail(email)
PFindUserByEmail(p, email) ==
    /\ ret[p].op = "none"
    /\ LET r == FindUserByEmail(heap, email)
           a == FindUserByEmail(ret[p].solo.heap, email)
       IN  /\ heap' = r.heap
           /\ err' = [err EXCEPT ![p] = r.err]
           /\ ret' = [ret EXCEPT ![p] = Did("FindUserByEmail", Seen(r.heap, r.err),
                                            Seen(a.heap, a.err), Solo(a.heap, a.err))]
    /\ UNCHANGED walk

\* err := user.QueryUsers(limit)
PQueryUsers(p, limit, now) ==
    /\ ret[p].op = "none"
    /\ LET r == QueryUsers(heap, limit, now)
           a == QueryUsers(ret[p].solo.heap, limit, now)
       IN  /\ heap' = r.heap
           /\ err' = [err EXCEPT ![p] = r.err]
           /\ ret' = [ret EXCEPT ![p] = Did("QueryUsers", Seen(r.heap, r.err),
                                            Seen(a.heap, a.err), Solo(a.heap, a.err))]
    /\ UNCHANGED walk

\* err.Error()
PError(p) ==
    /\ err[p] # Nil
    /\ ret' = [ret EXCEPT ![p] = Did("Error", Seen(heap, err[p]).text,
                                     Seen(ret[p].solo.heap, ret[p].solo.err).text,
                                     ret[p].solo)]
    /\ UNCHANGED <<heap, err, walk>>

\* errors.Is(err, target)
PIs(p, target) ==
    /\ err[p] # Nil
    /\ ret' = [ret EXCEPT ![p] = Did("Is", Is(heap, err[p], target),
                                     Is(ret[p].solo.heap, ret[p].solo.err, target),
                                     ret[p].solo)]
    /\ UNCHANGED <<heap, err, walk>>

\* err = database.Unwramp(err): one step down the chain
PUnwramp(p) ==
    /\ err[p] # Nil
    /\ LET c == Unwramp(heap, err[p])
           a == Unwramp(ret[p].solo.heap, ret[p].solo.err)
       IN  /\ err' = [err EXCEPT ![p] = c]
           /\ ret' = [ret EXCEPT ![p] = Did("Unwramp", Seen(heap, c),
                                            Seen(ret[p].solo.heap, a),
                                            Solo(ret[p].solo.heap, a))]
    /\ UNCHANGED <<heap, walk>>

(***************************************************************************)
(* Two DatabaseErrors that differ in Query only, and Error() called twice. *)
(***************************************************************************)
Queries == {"", "SELECT * FROM users LIMIT 10", "SELECT * FROM users WHERE id = ?"}

\* what a DatabaseError is built over here: nothing, or a sentinel
RenderBases == {Nil} \cup Sentinels

\* &DatabaseError{...} with the fields of the held one and another Query
NewDatabaseErrorWithQuery(query) ==
    /\ err # Nil
    /\ ret.op = "DatabaseError"
    /\ heap[err].kind = "DatabaseError"
    /\ heap[err].Query # query
    /\ heap' = Append(heap, [heap[err] EXCEPT !.Query = query])
    /\ err' = Len(heap) + 1
    /\ ret' = Call("DatabaseErrorWithQuery", err, Nil, Len(heap) + 1)
    /\ walk' = IdleWalk

\* first := err.Error(); second := err.Error()
CallErrorAgain ==
    /\ err # Nil
    /\ ret.op = "Error"
    /\ ret.err = err
    /\ ret' = Call("ErrorAgain", err, Nil,
                   [first |-> ret.val, second |-> ErrorText(heap, err)])
    /\ walk' = IdleWalk
    /\ UNCHANGED <<heap, err>>

(***************************************************************************)
(* package basic: Divide.  A float64 operand is held as its number of      *)
(* hundredths; a quotient is held exactly, as a fraction in lowest terms.  *)
(***************************************************************************)
Operands == {-1000, -200, -100, 0, 1, 100, 200, 250, 750, 1000, 4200}

Abs(n) == IF n < 0 THEN 0 - n ELSE n

RECURSIVE GCD(_, _)
GCD(a, b) == IF b = 0 THEN a ELSE GCD(b, a % b)

\* the float64 literal 0
Zero == [n |-> 0, d |-> 1]

\* a / b for b # 0
Quotient(a, b) ==
    LET g == GCD(Abs(a), Abs(b)) IN
    [n |-> (IF b < 0 THEN 0 - a ELSE a) \div g, d |-> Abs(b) \div g]

\* a Divide result: the heap after it, the float64 and the error
Divided(h, q, e) == [heap |-> h, result |-> q, err |-> e]

\* a failure that hands the dividend back with the error
Divide_KeepsDividend(h, a, b) ==
    IF b = 0
    THEN Divided(Append(h, ErrorString("division by zero")), Quotient(a, 100), Len(h) + 1)
    ELSE Divided(h, Quotient(a, b), Nil)

\* basic.Divide
Divide(h, a, b) ==
    IF b = 0
    THEN Divided(Append(h, ErrorString("division by zero")), Zero, Len(h) + 1)
    ELSE Divided(h, Quotient(a, b), Nil)

\* result, err := Divide(a, b)
CallDivide(a, b) ==
    /\ err = Nil
    /\ LET r == Divide(heap, a, b) IN
       /\ heap' = r.heap
       /\ err' = r.err
       /\ ret' = Call("Divide", r.err, Nil, [a |-> a, b |-> b, result |-> r.result])
    /\ walk' = IdleWalk

(***************************************************************************)
(* package custom: ValidationError values built from literals.             *)
(***************************************************************************)
ValidationFields == {"username", "age", "data"}

ValidationMessages == {"Username is required", "Data cannot be nil"}

ValidationCodes == {1001, 1004}

\* "", "invalid-email", -5, -10.50 and nil
ValidationValues ==
    {StrArg(""), StrArg("invalid-email"), IntArg(-5), FloatArg(-1050), NilArg}

\* err := &ValidationError{Field: .., Message: .., Code: .., Value: ..}
NewValidationErrorLiteral(field, message, code, value) ==
    /\ err = Nil
    /\ LET r == NewValidationError(heap, field, message, code, value) IN
       /\ heap' = r.heap
       /\ err' = r.err
       /\ ret' = Call("ValidationError", Nil, Nil, r.err)
    /\ walk' = IdleWalk

(***************************************************************************)
(* package example and main: the example functions, run statement by       *)
(* statement in main's order.  Here ret is the program counter and the     *)
(* locals: the statement of main being run, the line within the example    *)
(* function, what was written so far, what each read of the config file    *)
(* met, and dbErr; err is the example function's local err.                *)
(***************************************************************************)
MainProgram ==
    <<[fn |-> "BasicErrorExample", arg |-> NilArg],
      [fn |-> "CustomErrorExample", arg |-> IntArg(-5)],
      [fn |-> "CustomErrorExample", arg |-> IntArg(150)],
      [fn |-> "FormattedErrorExample", arg |-> IntArg(-10)],
      [fn |-> "FormattedErrorExample", arg |-> IntArg(25)],
      [fn |-> "FormattedErrorExample", arg |-> IntArg(150)],
      [fn |-> "WrappingErrorExample", arg |-> StrArg("non_existent_file.txt")],
      [fn |-> "WrappingErrorExample", arg |-> StrArg("valid_file.txt")],
      [fn |-> "ComplexErrorExample", arg |-> NilArg],
      [fn |-> "CustomErrorExample", arg |-> IntArg(999)]>>

\* main is about to run its first statement
MainStart ==
    [stmt |-> 1, line |-> 1, out |-> <<>>, reads |-> <<>>, dbErr |-> Nil,
     result |-> Zero, status |-> "running"]

Main(v) == Call("main", Nil, Nil, v)

InitMain ==
    /\ heap = StaticHeap
    /\ err = Nil
    /\ ret = Main(MainStart)
    /\ walk = IdleWalk

\* main is at the given line of a call of fn
Running(fn, line) ==
    /\ ret.op = "main"
    /\ ret.val.status = "running"
    /\ MainProgram[ret.val.stmt].fn = fn
    /\ ret.val.line = line

\* the argument of the call being run
Arg == MainProgram[ret.val.stmt].arg.v

\* a log call that ends the process, as log.Fatalf does
LogPrintf_Fatal(v, text) ==
    [v EXCEPT !.out = Append(@, [stmt |-> v.stmt, stream |-> "stderr", text |-> text]),
              !.status = "exited"]

\* log.Printf, log.Println: one line on standard error
LogPrintf(v, text) ==
    [v EXCEPT !.out = Append(@, [stmt |-> v.stmt, stream |-> "stderr", text |-> text])]

\* fmt.Printf: one line on standard output
Printf(v, text) ==
    [v EXCEPT !.out = Append(@, [stmt |-> v.stmt, stream |-> "stdout", text |-> text])]

\* the example function returns: main goes on to its next statement, or ends
Return(v) ==
    IF v.status # "running" THEN v
    ELSE [v EXCEPT !.stmt = @ + 1, !.line = 1, !.dbErr = Nil,
                   !.status = IF v.stmt = Len(MainProgram) THEN "done" ELSE "running"]

\* a nil pointer dereference
Panic(v) == [v EXCEPT !.status = "panicked"]

\* %.2f of a quotient
Fixed2(q) ==
    LET c == (Abs(q.n) * 100) \div q.d IN
    (IF q.n < 0 THEN "-" ELSE "") \o Digits(c \div 100) \o "." \o Pad2(c % 100)

\* example.BasicErrorExample
BasicErrorExample ==
    /\ IF Running("BasicErrorExample", 1)
       THEN LET r == Divide(heap, 1000, 0) IN
            /\ heap' = r.heap
            /\ err' = r.err
            /\ ret' = Main([ret.val EXCEPT !.line = 2, !.result = r.result])
       ELSE /\ Running("BasicErrorExample", 2)
            /\ ret' = Main(Return(IF err # Nil
                                  THEN LogPrintf(ret.val, "Error: " \o ErrorText(heap, err))
                                  ELSE Printf(ret.val, "Result: " \o Fixed2(ret.val.result))))
            /\ err' = Nil
            /\ UNCHANGED heap
    /\ UNCHANGED walk

\* example.CustomErrorExample(value), its result dropped by main
MainCustomErrorExample ==
    /\ Running("CustomErrorExample", 1)
    /\ heap' = CustomErrorExample(heap, Arg).heap
    /\ ret' = Main(Return(ret.val))
    /\ UNCHANGED <<err, walk>>

\* example.FormattedErrorExample(age)
FormattedErrorExample ==
    /\ IF Running("FormattedErrorExample", 1)
       THEN LET r == ValidateAge(heap, Arg) IN
            /\ heap' = r.heap
            /\ err' = r.err
            /\ ret' = Main([ret.val EXCEPT !.line = 2])
       ELSE /\ Running("FormattedErrorExample", 2)
            /\ ret' = Main(Return(IF err # Nil
                                  THEN LogPrintf(ret.val, "Error: " \o ErrorText(heap, err))
                                  ELSE Printf(ret.val, "Valid age: " \o Itoa(Arg))))
            /\ err' = Nil
            /\ UNCHANGED heap
    /\ UNCHANGED walk

\* where a file is, what reading it meets: valid_file.txt can be read
FileFault(filename, fault) == IF filename = "valid_file.txt" THEN Nil ELSE fault

\* a first line that reads the file it was given
WrappingErrorExampleCall_UsesFilename(h, filename, fault) ==
    readConfigFile(h, filename, FileFault(filename, fault))

\* err := wrapping.ProcessUserData(123), whatever filename is
WrappingErrorExampleCall(h, filename, fault) == ProcessUserData(h, 123, fault)

\* example.WrappingErrorExample(filename)
WrappingErrorExample ==
    /\ IF Running("WrappingErrorExample", 1)
       THEN \E fault \in ReadFaults :
               LET r == WrappingErrorExampleCall(heap, Arg, fault) IN
               /\ heap' = r.heap
               /\ err' = r.err
               /\ ret' = Main([ret.val EXCEPT
                                  !.line = 2,
                                  !.reads = Append(@, [stmt |-> ret.val.stmt,
                                                       fault |-> fault])])
       ELSE IF Running("WrappingErrorExample", 2)
       THEN /\ ret' = Main(IF err # Nil
                           THEN [LogPrintf(ret.val,
                                           "Full error chain: " \o CauseTextOf(heap, err))
                                   EXCEPT !.line = 3]
                           ELSE Return(ret.val))
            /\ UNCHANGED <<heap, err>>
       ELSE /\ Running("WrappingErrorExample", 3)
            /\ ret' = Main(Return(IF Is(heap, err, ErrNotExist)
                                  THEN LogPrintf(ret.val, "File not found - using defaults")
                                  ELSE ret.val))
            /\ err' = Nil
            /\ UNCHANGED heap
    /\ UNCHANGED walk

\* example.ComplexErrorExample
ComplexErrorExample ==
    /\ IF Running("ComplexErrorExample", 1)
       THEN \E now \in Times :
               LET r == QueryUsers(heap, 10, now) IN
               /\ heap' = r.heap
               /\ err' = r.err
               /\ ret' = Main([ret.val EXCEPT !.line = 2])
       ELSE IF Running("ComplexErrorExample", 2)
       THEN /\ ret' = Main(IF err # Nil /\ As(heap, err) # Nil
                           THEN [ret.val EXCEPT !.dbErr = As(heap, err), !.line = 3]
                           ELSE Return(ret.val))
            /\ err' = IF err # Nil /\ As(heap, err) # Nil THEN err ELSE Nil
            /\ UNCHANGED heap
       ELSE /\ ret.op = "main"
            /\ ret.val.status = "running"
            /\ MainProgram[ret.val.stmt].fn = "ComplexErrorExample"
            /\ ret.val.line \in 3..6
            /\ LET d == ret.val.dbErr
                   v == ret.val
               IN  ret' = Main(
                      IF d = Nil THEN Panic(v)
                      ELSE IF v.line = 3
                      THEN [LogPrintf(v, "Database operation: " \o heap[d].Operation)
                              EXCEPT !.line = 4]
                      ELSE IF v.line = 4
                      THEN [LogPrintf(v, "Table: " \o heap[d].Table) EXCEPT !.line = 5]
                      ELSE IF v.line = 5
                      THEN [LogPrintf(v, "Retryable: "
                                           \o FormatArg(heap, "%v", BoolArg(heap[d].Retryable)))
                              EXCEPT !.line = 6]
                      ELSE Return(IF heap[d].Retryable
                                  THEN LogPrintf(v, "Retrying operation...")
                                  ELSE v))
            /\ err' = IF ret.val.line = 6 THEN Nil ELSE err
            /\ UNCHANGED heap
    /\ UNCHANGED walk

(***************************************************************************)
(* A DatabaseError whose Err is the value itself: d := &DatabaseError{..}; *)
(* d.Err = d.  The fields are exported, so a caller can build it.          *)
(***************************************************************************)
NewSelfReferentialDatabaseError(lit, now) ==
    /\ err = Nil
    /\ heap' = Append(heap, DatabaseError(lit.Operation, lit.Table, lit.Query,
                                          Len(heap) + 1, now, lit.Retryable))
    /\ err' = Len(heap) + 1
    /\ ret' = Call("DatabaseError", Len(heap) + 1, Nil, Len(heap) + 1)
    /\ walk' = IdleWalk

(***************************************************************************)
(* Specifications.                                                         *)
(***************************************************************************)
Construct ==
    \/ \E s \in Sentinels : ReturnSentinel(s)
    \/ \E text \in Texts : ErrorsNew(text)
    \/ Errorf
    \/ \E lit \in DBLiterals, now \in Times : NewDatabaseError(lit, now)

Inspect ==
    \/ CallError
    \/ CallUnwramp
    \/ \E target \in Targets : CallIs(target)
    \/ CallAs

Walk ==
    \/ WalkLevelsStart
    \/ WalkDepthStart
    \/ WalkStep

\* errors built by the program's own constructors, then inspected
Next ==
    \/ Construct
    \/ Inspect
    \/ CallUnwrap
    \/ Walk

Spec == Init /\ [][Next]_vars

\* the error ProcessUserData returns, then inspected
NextWrap ==
    \/ \E userID \in UserIDs, fault \in ReadFaults : CallProcessUserData(userID, fault)
    \/ Inspect
    \/ Walk

SpecWrap == Init /\ [][NextWrap]_vars

\* the tests that walk: ProcessUserData, then one loop after another, each
\* run to its end before anything else is done
NextWalkLive ==
    \/ \E userID \in UserIDs, fault \in ReadFaults : CallProcessUserData(userID, fault)
    \/ Walk

\* a loop that has started keeps iterating
SpecWalkLive == Init /\ [][NextWalkLive]_vars /\ WF_vars(WalkStep)

\* each of the three layers called on its own, its error then inspected
NextLayers ==
    \/ \E userID \in UserIDs, fault \in ReadFaults : CallProcessUserData(userID, fault)
    \/ \E userID \in UserIDs, fault \in ReadFaults : CallLoadUserConfig(userID, fault)
    \/ \E filename \in Filenames, fault \in ReadFaults : CallReadConfigFile(filename, fault)
    \/ Inspect
    \/ Walk

SpecLayers == Init /\ [][NextLayers]_vars

\* the validation and lookup functions, their errors then inspected
NextUser ==
    \/ \E user \in Users : CallValidateUser(user)
    \/ \E email \in Emails : CallFindUserByEmail(email)
    \/ \E limit \in Limits, now \in Times : CallQueryUsers(limit, now)
    \/ \E age \in Ages : CallValidateAge(age)
    \/ \E value \in Values : CallCustomErrorExample(value)
    \/ Inspect
    \/ CallUnwrap
    \/ Walk

SpecUser == Init /\ [][NextUser]_vars

\* main, one line at a time
NextMain ==
    \/ BasicErrorExample
    \/ MainCustomErrorExample
    \/ FormattedErrorExample
    \/ WrappingErrorExample
    \/ ComplexErrorExample

\* main is the only thread: while it can run, it runs
SpecMain == InitMain /\ [][NextMain]_vars /\ WF_vars(NextMain)

\* every interleaving of the calls of two callers
NextConc ==
    \E p \in Procs :
       \/ \E email \in ConcEmails : PFindUserByEmail(p, email)
       \/ \E limit \in ConcLimits, now \in Times : PQueryUsers(p, limit, now)
       \/ PError(p)
       \/ \E target \in ConcTargets : PIs(p, target)
       \/ PUnwramp(p)

SpecConc == InitConc /\ [][NextConc]_vars

\* DatabaseErrors built singly and in pairs, then rendered once and again
NextRender ==
    \/ \E s \in Sentinels : ReturnSentinel(s)
    \/ \E lit \in DBLiterals, now \in Times :
          err \in RenderBases /\ NewDatabaseError(lit, now)
    \/ \E query \in Queries : NewDatabaseErrorWithQuery(query)
    \/ CallError
    \/ CallErrorAgain

SpecRender == Init /\ [][NextRender]_vars

\* Divide on every pair of operands, its error then inspected
NextBasic ==
    \/ \E a \in Operands, b \in Operands : CallDivide(a, b)
    \/ Inspect
    \/ Walk

SpecBasic == Init /\ [][NextBasic]_vars

\* ValidationError literals, then inspected
NextValidation ==
    \/ \E field \in ValidationFields, message \in ValidationMessages,
          code \in ValidationCodes, value \in ValidationValues :
          NewValidationErrorLiteral(field, message, code, value)
    \/ Inspect
    \/ Walk

SpecValidation == Init /\ [][NextValidation]_vars

\* as Spec, with callers that may also build a self-referential DatabaseError
NextCyc ==
    \/ \E s \in Sentinels : ReturnSentinel(s)
    \/ \E lit \in DBLiterals, now \in Times : NewDatabaseError(lit, now)
    \/ \E lit \in DBLiterals, now \in Times : NewSelfReferentialDatabaseError(lit, now)
    \/ CallUnwramp
    \/ CallUnwrap
    \/ Walk

SpecCyc == Init /\ [][NextCyc]_vars

(***************************************************************************)
(* Properties.                                                             *)
(***************************************************************************)
\* the text of a cause as %v prints it
CauseText(e) == IF e = Nil THEN "<nil>" ELSE ErrorText(heap, e)

\* the RFC3339 text of each instant of Times, written out
RFC3339Text(t) ==
    CASE t.year = 2023 -> "2023-10-05T10:30:00Z"
      [] t.year = 2024 -> "2024-02-29T23:59:07+06:00"

\* C1: Error() of a DatabaseError is exactly "database error [<Operation> on
\* <Table>]: <text of Err> (retryable: <true|false>, timestamp: <Timestamp in
\* RFC3339>)", whatever its fields; a nil Err prints as <nil>.
C1_ErrorText ==
    (ret.op = "Error" /\ heap[ret.err].kind = "DatabaseError") =>
        LET d == heap[ret.err] IN
        ret.val = "database error [" \o d.Operation \o " on " \o d.Table
                    \o "]: " \o CauseText(d.Err)
                    \o " (retryable: " \o (IF d.Retryable THEN "true" ELSE "false")
                    \o ", timestamp: " \o RFC3339Text(d.Timestamp) \o ")"

\* a DatabaseError over a fresh "connection timeout" has been rendered
C1_Witness ==
    /\ ret.op = "Error"
    /\ ret.val = "database error [SELECT on users]: connection timeout (retryable: true, timestamp: 2023-10-05T10:30:00Z)"

\* C2: Unwrap() of a DatabaseError returns the very error it was constructed
\* with as Err (the same heap value), and nil when it was constructed with nil.
C2_UnwrapReturnsErr ==
    [][(ret.op = "DatabaseError" /\ ret'.op = "Unwrap" /\ ret'.err = ret.val)
          => ret'.val = ret.err]_vars

\* Unwrap returned a fresh error whose text is also a sentinel's text
C2_Witness ==
    /\ ret.op = "Unwrap"
    /\ ret.val # Nil
    /\ ret.val \notin Sentinels
    /\ heap[ret.val].kind = "errorString"
    /\ heap[ret.val].s = heap[ErrUserNotFound].s

\* C3: a sentinel S under any number of fmt.Errorf and DatabaseError layers
\* matches S and matches no other sentinel.
C3_WrappedSentinelMatches ==
    (ret.op = "Is" /\ ret.err # Nil /\ ret.target \in Sentinels
       /\ Root(heap, ret.err) \in Sentinels)
        => ret.val = (Root(heap, ret.err) = ret.target)

\* a sentinel under two layers, one of them a DatabaseError, was matched
C3_Witness ==
    /\ ret.op = "Is" /\ ret.err # Nil
    /\ Wraps(heap, ret.err) = MaxWraps
    /\ Root(heap, ret.err) = ret.target
    /\ ret.target \in Sentinels
    /\ \E x \in ChainSet(heap, ret.err) : heap[x].kind = "DatabaseError"
    /\ \E x \in ChainSet(heap, ret.err) : heap[x].kind = "wrapError"
    /\ ret.val = TRUE

\* the elements of the chain of e, other than t, that render the same text as t
SameTextAs(e, t) ==
    {x \in ChainSet(heap, e) : x # t /\ ErrorText(heap, x) = ErrorText(heap, t)}

\* C4: matching is by identity: a chain that holds an independently made error
\* with the text of the target, and not the target itself, does not match it.
C4_MatchByIdentity ==
    (ret.op = "Is" /\ ret.err # Nil
       /\ ret.target \notin ChainSet(heap, ret.err)
       /\ SameTextAs(ret.err, ret.target) # {})
        => ret.val = FALSE

\* a wrapped errors.New("user not found") was matched against ErrUserNotFound
C4_Witness ==
    /\ ret.op = "Is" /\ ret.err # Nil
    /\ ret.target = ErrUserNotFound
    /\ Wraps(heap, ret.err) >= 1
    /\ SameTextAs(ret.err, ret.target) # {}
    /\ ret.val = FALSE

\* the positions of the DatabaseErrors in the chain of e
DBPositions(h, e) ==
    {i \in 1..Len(Chain(h, e)) : h[Chain(h, e)[i]].kind = "DatabaseError"}

Min(S) == CHOOSE x \in S : \A y \in S : x <= y

\* C5: typed extraction returns the outermost DatabaseError of the chain, and
\* nothing when the chain holds none.
C5_AsReturnsOutermost ==
    ret.op = "As" =>
        IF DBPositions(heap, ret.err) = {} THEN ret.val = Nil
        ELSE ret.val = Chain(heap, ret.err)[Min(DBPositions(heap, ret.err))]

\* extraction from a wrapper over two DatabaseErrors returned the outer one
C5_Witness ==
    /\ ret.op = "As"
    /\ Cardinality(DBPositions(heap, ret.err)) = 2
    /\ heap[ret.err].kind = "wrapError"
    /\ ret.val = Chain(heap, ret.err)[2]

\* C6: from a chain with exactly one DatabaseError, typed extraction returns
\* that instance, and the extraction leaves every field of every error as it
\* was constructed.
C6_AsKeepsFields ==
    [][(ret'.op = "As" /\ Cardinality(DBPositions(heap, err)) = 1)
          => /\ ret'.val \in ChainSet(heap, err)
             /\ heap[ret'.val].kind = "DatabaseError"
             /\ heap'[ret'.val] = heap[ret'.val]
             /\ heap' = heap]_vars

\* the one DatabaseError was extracted from under a fmt.Errorf layer
C6_Witness ==
    /\ ret.op = "As"
    /\ Cardinality(DBPositions(heap, ret.err)) = 1
    /\ ret.val # ret.err
    /\ ret.val # Nil
    /\ heap[ret.val].Operation = "INSERT"
    /\ heap[ret.val].Table = "products"
    /\ heap[ret.val].Retryable = FALSE

\* the held error came from a read that met "no such file or directory"
MissingFile == err # Nil /\ Acyclic(heap, err) /\ Root(heap, err) = ENOENT

\* a walk that collected each level's text has run to its end
LevelsDone == walk.kind = "levels" /\ walk.status = "done"

\* C7 as stated: the walk over ProcessUserData's error for a missing file
\* yields exactly 3 elements, the last one the file-system fault text.
C7_WalkYieldsThree ==
    (LevelsDone /\ MissingFile) =>
        /\ Len(walk.levels) = 3
        /\ walk.levels[Len(walk.levels)] = "no such file or directory"

\* C7 amended: the walk yields exactly 5 elements in outer-to-leaf order: the
\* three fmt.Errorf layers (process user, load config, read config file), the
\* *fs.PathError of os.ReadFile and the syscall.Errno under it, whose text is
\* the file-system fault text; each level's text is its prefix and the text
\* of the level below.
C7_WalkYieldsFive ==
    (LevelsDone /\ MissingFile) =>
        /\ Len(walk.levels) = 5
        /\ walk.path[1] = err
        /\ \A i \in 1..4 : walk.path[i + 1] = UnwrapOf(heap[walk.path[i]])
        /\ \A i \in 1..3 : heap[walk.path[i]].kind = "wrapError"
        /\ heap[walk.path[4]].kind = "PathError"
        /\ walk.path[5] = ENOENT
        /\ walk.levels[5] = "no such file or directory"
        /\ \E id \in UserIDs :
             /\ walk.levels[4] = "open user_" \o Itoa(id) \o ".json: " \o walk.levels[5]
             /\ walk.levels[3] = "failed to read config file user_" \o Itoa(id)
                                   \o ".json: " \o walk.levels[4]
             /\ walk.levels[2] = "failed to load config for user " \o Itoa(id)
                                   \o ": " \o walk.levels[3]
             /\ walk.levels[1] = "failed to process user " \o Itoa(id)
                                   \o ": " \o walk.levels[2]

\* the walk over ProcessUserData(999)'s error for a missing file has ended
C7_Witness ==
    /\ LevelsDone /\ MissingFile
    /\ walk.levels[1] = "failed to process user 999: failed to load config for user 999: failed to read config file user_999.json: open user_999.json: no such file or directory"
    /\ walk.levels[Len(walk.levels)] = "no such file or directory"

\* C8: a chain walk stops on a chain that refers back to itself and reports a
\* chain-integrity fault: it never runs away, it ends with the fault exactly
\* when the chain is cyclic, and on an acyclic chain it ends having visited
\* each element once.
C8_WalkGuardsCycles ==
    /\ walk.status # "overflow"
    /\ walk.status \in {"done", "tooDeep"} =>
          (walk.status = "tooDeep") = ~Acyclic(heap, walk.from)
    /\ walk.status = "done" => walk.path = Chain(heap, walk.from)

\* C9: Unwramp is one step: on an error that has Unwrap() it returns the
\* cause that error was built over, not the root of the chain, and on an error
\* without Unwrap() it returns nil.
C9_UnwrampOneStep ==
    [][ret'.op = "Unwramp" =>
          /\ (ret.op \in {"fmt.Errorf", "DatabaseError"} /\ ret'.err = ret.val)
                => ret'.val = ret.err
          /\ (ret.op \in {"return", "errors.New"} /\ ret'.err = ret.val)
                => ret'.val = Nil]_vars

\* Unwramp of a twice-wrapped error returned the middle of the chain
C9_Witness ==
    /\ ret.op = "Unwramp" /\ ret.err # Nil
    /\ Wraps(heap, ret.err) = 2
    /\ ret.val = Chain(heap, ret.err)[2]
    /\ ret.val # Root(heap, ret.err)

\* C10: the five sentinels are five different values: each matches itself and
\* none matches another.
C10_SentinelsDistinct ==
    /\ Cardinality(Sentinels) = 5
    /\ (ret.op = "Is" /\ ret.err \in Sentinels /\ ret.target \in Sentinels)
          => ret.val = (ret.err = ret.target)

\* two different sentinels were matched against each other
C10_Witness ==
    /\ ret.op = "Is"
    /\ ret.err = ErrDatabaseTimeout
    /\ ret.target = ErrUserNotFound
    /\ ret.val = FALSE

\* the text each sentinel is declared with
SentinelText(s) ==
    CASE s = ErrUserNotFound -> "user not found"
      [] s = ErrDuplicateEmail -> "email already exists"
      [] s = ErrInvalidPassword -> "invalid password"
      [] s = ErrUnauthorized -> "unauthorized access"
      [] s = ErrDatabaseTimeout -> "database operation timed out"

\* C11: whatever the program has done so far, each sentinel still renders its
\* declared text, is still the value a function returning it hands out, and
\* still matches itself and no other sentinel.
C11_SentinelsFixed ==
    /\ \A s \in Sentinels :
          /\ heap[s] = ErrorString(SentinelText(s))
          /\ ErrorText(heap, s) = SentinelText(s)
          /\ \A t \in Sentinels : Is(heap, s, t) = (s = t)
    /\ ret.op = "return" => (ret.val \in Sentinels /\ ret.err = ret.val)
    /\ (ret.op = "Error" /\ ret.err \in Sentinels) => ret.val = SentinelText(ret.err)

\* a sentinel was wrapped twice and the chain matched against it
C11_Witness ==
    /\ ret.op = "Is"
    /\ ret.val = TRUE
    /\ ret.target = ErrDuplicateEmail
    /\ Wraps(heap, ret.err) = 2
    /\ heap[ret.err].kind = "wrapError"
    /\ Len(heap) > Len(StaticHeap)
\* the calls of package wrapping
LayerOps == {"ProcessUserData", "loadUserConfig", "readConfigFile"}

\* C12: when the file does not exist, the error each of ProcessUserData,
\* loadUserConfig and readConfigFile returns is not nil and errors.Is finds
\* os.ErrNotExist in it.
C12_MissingFileMatchesNotExist ==
    /\ (ret.op \in LayerOps /\ ret.val.fault = ENOENT)
          => (ret.err # Nil /\ Is(heap, ret.err, ErrNotExist))
    /\ (ret.op = "Is" /\ ret.target = ErrNotExist /\ MissingFile)
          => ret.val = TRUE

\* errors.Is(err, os.ErrNotExist) answered true for what readConfigFile
\* returned for a missing file
C12_Witness ==
    /\ ret.op = "Is"
    /\ ret.target = ErrNotExist
    /\ ret.val = TRUE
    /\ Len(Chain(heap, ret.err)) = 3
    /\ heap[Chain(heap, ret.err)[2]].kind = "PathError"
    /\ heap[Chain(heap, ret.err)[2]].Path = "definitely_does_not_exist_12345.json"

\* the decimal text of each number the calls are made with
DecimalText(n) ==
    CASE n = -100 -> "-100" [] n = -10 -> "-10" [] n = -1 -> "-1"
      [] n = 0 -> "0" [] n = 1 -> "1" [] n = 10 -> "10" [] n = 25 -> "25"
      [] n = 42 -> "42" [] n = 50 -> "50" [] n = 100 -> "100"
      [] n = 101 -> "101" [] n = 123 -> "123" [] n = 130 -> "130"
      [] n = 131 -> "131" [] n = 150 -> "150" [] n = 200 -> "200"
      [] n = 999 -> "999" [] n = 1000 -> "1000"
      [] n = -5 -> "-5" [] n = 1001 -> "1001" [] n = 1004 -> "1004"

\* the text of what os.ReadFile returns for each fault
ReadErrorText(name, fault) ==
    "open " \o name \o ": "
      \o (IF fault = ENOENT THEN "no such file or directory" ELSE "permission denied")

\* the text the three layers give for user N and a read fault
ProcessUserDataText(userID, fault) ==
    LET N == DecimalText(userID) IN
    "failed to process user " \o N \o ": failed to load config for user " \o N
      \o ": failed to read config file user_" \o N \o ".json: "
      \o ReadErrorText("user_" \o N \o ".json", fault)

\* C13: on a read failure the text of the error ProcessUserData(N) returns is
\* 'failed to process user N: failed to load config for user N: failed to read
\* config file user_N.json: ' followed by the text of the read error.
C13_ProcessUserDataText ==
    /\ (ret.op = "ProcessUserData" /\ ret.val.fault # Nil)
          => /\ ret.err # Nil
             /\ ErrorText(heap, ret.err)
                  = ProcessUserDataText(ret.val.userID, ret.val.fault)
    /\ (ret.op = "Error" /\ Len(Chain(heap, ret.err)) = 5)
          => \E userID \in UserIDs, fault \in ReadFaults \ {Nil} :
                /\ Root(heap, ret.err) = fault
                /\ heap[Chain(heap, ret.err)[4]].Path = "user_" \o DecimalText(userID) \o ".json"
                /\ ret.val = ProcessUserDataText(userID, fault)

\* Error() was called on what ProcessUserData(42) returned for a missing file
C13_Witness ==
    /\ ret.op = "Error"
    /\ Len(Chain(heap, ret.err)) = 5
    /\ ret.val = "failed to process user 42: failed to load config for user 42: failed to read config file user_42.json: open user_42.json: no such file or directory"

\* C14: each layer returns nil exactly when the layer below returned nil, and
\* otherwise a new wrapper whose Unwrap is the very error the layer below
\* returned, so the fault os.ReadFile met stays the root of the chain.
C14_LayersWrapTheCause ==
    ret.op \in LayerOps =>
       /\ (ret.err = Nil) = (ret.val.below = Nil)
       /\ (ret.val.below = Nil) = (ret.val.fault = Nil)
       /\ ret.err # Nil =>
             /\ ret.err > Len(StaticHeap)
             /\ ret.err # ret.val.below
             /\ ret.err \notin ChainSet(heap, ret.val.below)
             /\ heap[ret.err].kind = "wrapError"
             /\ Unwramp(heap, ret.err) = ret.val.below
             /\ Root(heap, ret.err) = ret.val.fault

\* loadUserConfig returned a wrapper of what readConfigFile returned for a
\* file that may not be opened
C14_Witness ==
    /\ ret.op = "loadUserConfig"
    /\ ret.val.fault = EACCES
    /\ ret.err # Nil
    /\ ret.val.below # Nil
    /\ heap[ret.err].err = ret.val.below
    /\ heap[ret.val.below].msg
         = "failed to read config file user_123.json: open user_123.json: permission denied"
\* C15: ValidateUser returns nil exactly for the users whose Age is within
\* 0..130, both ends included, and whose Email is not empty.
C15_ValidateUserAccepts ==
    ret.op = "ValidateUser" =>
       ((ret.err = Nil)
          = (0 <= ret.val.Age /\ ret.val.Age <= 130 /\ ret.val.Email # ""))

\* a user aged 130 with an email was accepted
C15_Witness ==
    /\ ret.op = "ValidateUser"
    /\ ret.val.Age = 130
    /\ ret.val.Email = "a@b.c"
    /\ ret.err = Nil

\* C16: a rejection by ValidateUser is a ValidationError naming what failed:
\* Age below 0 gives Age/2001/the age, Age above 130 gives Age/2002/the age,
\* and only with the age in range does an empty Email give Email/2003/''.
C16_ValidateUserRejects ==
    (ret.op = "ValidateUser" /\ ret.err # Nil) =>
       LET o == heap[ret.err]
           u == ret.val
       IN  /\ o.kind = "ValidationError"
           /\ u.Age < 0 =>
                (o.Field = "Age" /\ o.Code = 2001 /\ o.Value = IntArg(u.Age))
           /\ u.Age > 130 =>
                (o.Field = "Age" /\ o.Code = 2002 /\ o.Value = IntArg(u.Age))
           /\ (0 <= u.Age /\ u.Age <= 130) =>
                (u.Email = "" /\ o.Field = "Email" /\ o.Code = 2003
                   /\ o.Value = StrArg(""))

\* a user with a negative age and an empty email was rejected for the age
C16_Witness ==
    /\ ret.op = "ValidateUser"
    /\ ret.val.Age = -1
    /\ ret.val.Email = ""
    /\ ret.err # Nil
    /\ heap[ret.err].Code = 2001
    /\ heap[ret.err].Value = IntArg(-1)

\* C17: FindUserByEmail returns no user and an error that matches
\* ErrUserNotFound: for the empty email a wrapper with the text 'email cannot
\* be empty: user not found' whose cause is the sentinel, else the sentinel.
C17_FindUserByEmailNotFound ==
    /\ ret.op = "FindUserByEmail" =>
          /\ ret.val.user = Nil
          /\ ret.err # Nil
          /\ Is(heap, ret.err, ErrUserNotFound)
          /\ ret.val.email = "" =>
                /\ ret.err # ErrUserNotFound
                /\ heap[ret.err].kind = "wrapError"
                /\ ErrorText(heap, ret.err) = "email cannot be empty: user not found"
                /\ Unwramp(heap, ret.err) = ErrUserNotFound
          /\ ret.val.email # "" => ret.err = ErrUserNotFound
    /\ (ret.op = "Is" /\ ret.target = ErrUserNotFound /\ ret.err # Nil
          /\ Root(heap, ret.err) = ErrUserNotFound)
          => ret.val = TRUE

\* errors.Is found the sentinel under what FindUserByEmail("") returned
C17_Witness ==
    /\ ret.op = "Is"
    /\ ret.target = ErrUserNotFound
    /\ ret.val = TRUE
    /\ ret.err # Nil
    /\ heap[ret.err].kind = "wrapError"
    /\ heap[ret.err].msg = "email cannot be empty: user not found"
    /\ heap[ret.err].err = ErrUserNotFound

\* the rendering of what QueryUsers returns at time t
QueryUsersText(t) ==
    "database error [SELECT on users]: connection timeout (retryable: true, timestamp: "
      \o RFC3339Text(t) \o ")"

\* C18: QueryUsers(limit) returns a DatabaseError SELECT on users, retryable,
\* whose Query is 'SELECT * FROM users LIMIT <limit>' and whose cause is not
\* nil and reads 'connection timeout'; it renders as 'database error [SELECT
\* on users]: connection timeout (retryable: true, timestamp: ' and then the
\* timestamp.
C18_QueryUsersError ==
    /\ ret.op = "QueryUsers" =>
          /\ ret.err # Nil
          /\ LET o == heap[ret.err] IN
             /\ o.kind = "DatabaseError"
             /\ o.Operation = "SELECT"
             /\ o.Table = "users"
             /\ o.Retryable = TRUE
             /\ o.Query = "SELECT * FROM users LIMIT " \o DecimalText(ret.val.limit)
             /\ o.Err # Nil
             /\ ErrorText(heap, o.Err) = "connection timeout"
          /\ ErrorText(heap, ret.err) = QueryUsersText(ret.val.now)
    /\ (ret.op = "Error" /\ heap[ret.err].kind = "DatabaseError")
          => ret.val = QueryUsersText(heap[ret.err].Timestamp)

\* Error() was called on what QueryUsers(-1) returned
C18_Witness ==
    /\ ret.op = "Error"
    /\ heap[ret.err].kind = "DatabaseError"
    /\ heap[ret.err].Query = "SELECT * FROM users LIMIT -1"
    /\ ret.val = "database error [SELECT on users]: connection timeout (retryable: true, timestamp: 2024-02-29T23:59:07+06:00)"

\* C19: ValidateAge returns nil exactly for 0..130; below 0 the text is
\* 'invalid age: <age>. Age cannot be negative', above 130 it is
\* 'invalid age: <age>. Age cannot be greater than 130'.
C19_ValidateAge ==
    /\ ret.op = "ValidateAge" =>
          /\ (ret.err = Nil) = (0 <= ret.val /\ ret.val <= 130)
          /\ ret.val < 0 =>
                ErrorText(heap, ret.err)
                  = "invalid age: " \o DecimalText(ret.val) \o ". Age cannot be negative"
          /\ ret.val > 130 =>
                ErrorText(heap, ret.err)
                  = "invalid age: " \o DecimalText(ret.val)
                      \o ". Age cannot be greater than 130"
    /\ (ret.op = "Error" /\ heap[ret.err].kind = "errorString"
          /\ ret.err \notin Ids(StaticHeap))
          => \E age \in Ages \ (0..130) :
                ret.val = "invalid age: " \o DecimalText(age)
                            \o (IF age < 0 THEN ". Age cannot be negative"
                                ELSE ". Age cannot be greater than 130")

\* Error() was called on what ValidateAge(131) returned
C19_Witness ==
    /\ ret.op = "Error"
    /\ ret.val = "invalid age: 131. Age cannot be greater than 130"

\* C20: CustomErrorExample returns nil exactly for 0..100; below 0 a
\* ValidationError value/1001/the value, above 100 value/1002/the value.
C20_CustomErrorExample ==
    ret.op = "CustomErrorExample" =>
       /\ (ret.err = Nil) = (0 <= ret.val /\ ret.val <= 100)
       /\ ret.val < 0 =>
             /\ heap[ret.err].kind = "ValidationError"
             /\ heap[ret.err].Field = "value"
             /\ heap[ret.err].Code = 1001
             /\ heap[ret.err].Value = IntArg(ret.val)
       /\ ret.val > 100 =>
             /\ heap[ret.err].kind = "ValidationError"
             /\ heap[ret.err].Field = "value"
             /\ heap[ret.err].Code = 1002
             /\ heap[ret.err].Value = IntArg(ret.val)

\* CustomErrorExample(101) was rejected with code 1002
C20_Witness ==
    /\ ret.op = "CustomErrorExample"
    /\ ret.val = 101
    /\ ret.err # Nil
    /\ heap[ret.err].Code = 1002
    /\ heap[ret.err].Value = IntArg(101)
\* the %v text of each Value the literals are built with
ValueText(v) ==
    CASE v = StrArg("") -> ""
      [] v = StrArg("invalid-email") -> "invalid-email"
      [] v = IntArg(-5) -> "-5"
      [] v = FloatArg(-1050) -> "-10.5"
      [] v = NilArg -> "<nil>"

\* C21: Error() of a ValidationError is 'Validation error on field '<Field>':
\* <Message> (code: <Code>, value: <Value>)'; an empty string Value prints as
\* nothing and a nil Value as <nil>.
C21_ValidationErrorText ==
    (ret.op = "Error" /\ heap[ret.err].kind = "ValidationError") =>
       LET o == heap[ret.err] IN
       ret.val = "Validation error on field '" \o o.Field \o "': " \o o.Message
                   \o " (code: " \o DecimalText(o.Code) \o ", value: "
                   \o ValueText(o.Value) \o ")"

\* Error() was called on a ValidationError whose Value is nil
C21_Witness ==
    /\ ret.op = "Error"
    /\ heap[ret.err].kind = "ValidationError"
    /\ heap[ret.err].Value = NilArg
    /\ ret.val = "Validation error on field 'data': Data cannot be nil (code: 1004, value: <nil>)"
\* C22: Divide(a, 0) returns 0 and an error whose text is 'division by zero',
\* whatever a is; Divide(a, b) with b other than 0 returns a nil error.
C22_DivideByZero ==
    /\ ret.op = "Divide" =>
          /\ ret.val.b = 0 =>
                /\ ret.val.result = [n |-> 0, d |-> 1]
                /\ ret.err # Nil
                /\ ErrorText(heap, ret.err) = "division by zero"
          /\ ret.val.b # 0 =>
                /\ ret.err = Nil
                /\ ret.val.result.n * ret.val.b = ret.val.a * ret.val.result.d
    /\ (ret.op = "Error" /\ ret.err \notin Ids(StaticHeap))
          => ret.val = "division by zero"

\* Divide(-10, 0) returned 0 and an error
C22_Witness ==
    /\ ret.op = "Divide"
    /\ ret.val.a = -1000
    /\ ret.val.b = 0
    /\ ret.val.result.n = 0
    /\ ret.err # Nil
    /\ heap[ret.err] = ErrorString("division by zero")
\* two DatabaseErrors with the same Operation, Table, Err, Retryable, Timestamp
SameButQuery(o1, o2) == [o1 EXCEPT !.Query = ""] = [o2 EXCEPT !.Query = ""]

\* C23: Error() called twice on a DatabaseError gives the same text twice, and
\* the text is that of every DatabaseError with the same Operation, Table,
\* Err, Retryable and Timestamp, whatever its Query.
C23_RenderingIgnoresQuery ==
    /\ (ret.op = "ErrorAgain" /\ heap[ret.err].kind = "DatabaseError")
          => ret.val.first = ret.val.second
    /\ (ret.op = "Error" /\ heap[ret.err].kind = "DatabaseError")
          => \A d \in Ids(heap) :
                (heap[d].kind = "DatabaseError" /\ SameButQuery(heap[d], heap[ret.err]))
                   => ErrorText(heap, d) = ret.val

\* Error() was called on a DatabaseError while another with a different Query
\* and the same other fields exists
C23_Witness ==
    /\ ret.op = "Error"
    /\ heap[ret.err].kind = "DatabaseError"
    /\ heap[ret.err].Err # Nil
    /\ \E d \in Ids(heap) :
          /\ d # ret.err
          /\ heap[d].kind = "DatabaseError"
          /\ SameButQuery(heap[d], heap[ret.err])
          /\ heap[d].Query # heap[ret.err].Query
\* C24: no step of the program changes a DatabaseError that exists: every
\* field, the Timestamp included, is after the step what it was before.
C24_DatabaseErrorImmutable ==
    [][\A d \in Ids(heap) :
          heap[d].kind = "DatabaseError"
             => (d \in Ids(heap') /\ heap'[d] = heap[d])]_vars

\* a chain of three was walked to its end from a DatabaseError that still
\* holds the fields it was built with
C24_Witness ==
    /\ walk.kind = "levels"
    /\ walk.status = "done"
    /\ Len(walk.levels) = 3
    /\ heap[walk.from].kind = "DatabaseError"
    /\ heap[walk.from].Timestamp \in Times
    /\ heap[walk.from].Operation = "INSERT"
    /\ heap[walk.from].Err = walk.path[2]
\* C25: in every interleaving of two callers, each call of each caller
\* returns what it returns when the caller runs alone, the error a caller
\* holds is the one it holds alone, and the package-level values are as they
\* were at start.
C25_CallersDoNotInterfere ==
    /\ \A p \in Procs :
          /\ ret[p].val = ret[p].alone
          /\ Seen(heap, err[p]) = Seen(ret[p].solo.heap, ret[p].solo.err)
    /\ SubSeq(heap, 1, Len(StaticHeap)) = StaticHeap

\* one caller holds the sentinel itself and has rendered it, after the other
\* wrapped the same sentinel and matched it
C25_Witness ==
    /\ ret["p"].op = "Error"
    /\ err["p"] = ErrUserNotFound
    /\ ret["p"].val = "user not found"
    /\ ret["q"].op = "Is"
    /\ ret["q"].val = TRUE
    /\ err["q"] # Nil
    /\ heap[err["q"]].kind = "wrapError"
    /\ heap[err["q"]].err = ErrUserNotFound
\* a walk of the given loop has ended
WalkDone(kind) == walk.kind = kind /\ walk.status = "done"

\* C26: a walk from the error ProcessUserData returned on a read failure
\* always ends, and ends at an element with no cause after at least 3 and at
\* most 10 levels, the first of them the 'failed to process user' error.
C26_WalkEnds ==
    /\ [](walk.status \notin {"tooDeep", "overflow"})
    /\ [](WalkDone("depth") =>
            /\ walk.depth >= 3
            /\ walk.depth <= MaxDepth
            /\ walk.path[1] = walk.from
            /\ ~HasUnwrap(heap[walk.path[walk.depth]]))
    /\ [](WalkDone("levels") =>
            /\ Len(walk.levels) >= 3
            /\ Len(walk.levels) <= MaxDepth
            /\ walk.path[1] = walk.from
            /\ \E userID \in UserIDs, fault \in ReadFaults \ {Nil} :
                  walk.levels[1] = ProcessUserDataText(userID, fault)
            /\ ~HasUnwrap(heap[walk.path[Len(walk.path)]]))
    /\ (walk.status = "walking" ~> walk.status = "done")

\* the counting loop ended at depth 5 on what ProcessUserData(1) returned
C26_Witness ==
    /\ WalkDone("depth")
    /\ walk.depth = 5
    /\ heap[walk.from].msg = "failed to process user 1: failed to load config for user 1: failed to read config file user_1.json: open user_1.json: permission denied"
    /\ walk.path[5] = EACCES
\* C27: main never panics and never exits early, and it reaches its end,
\* whatever the reads of the config file meet and whenever QueryUsers runs.
C27_MainRunsToEnd ==
    /\ [](ret.val.status \notin {"panicked", "exited"})
    /\ [](ret.val.status = "done" => (ret.val.stmt = Len(MainProgram) + 1 /\ err = Nil))
    /\ <>(ret.val.status = "done")

\* main ended after both reads met a missing file and the query was retried
C27_Witness ==
    /\ ret.val.status = "done"
    /\ ret.val.stmt = 11
    /\ \A k \in 1..Len(ret.val.reads) : ret.val.reads[k].fault = ENOENT
    /\ Len(ret.val.out) = 12
    /\ ret.val.out[1].text = "Error: division by zero"
    /\ ret.val.out[2].text = "Error: invalid age: -10. Age cannot be negative"
    /\ ret.val.out[3].text = "Valid age: 25"
    /\ ret.val.out[12].text = "Retrying operation..."

\* the statements of main that call WrappingErrorExample
WrappingStmts ==
    {i \in 1..Len(MainProgram) : MainProgram[i].fn = "WrappingErrorExample"}

\* the lines statement i of main wrote
Lines(i) ==
    LET sel == SelectSeq(ret.val.out, LAMBDA o : o.stmt = i) IN
    [k \in 1..Len(sel) |-> sel[k].text]

\* what the read of statement i met
FaultAt(i) ==
    LET sel == SelectSeq(ret.val.reads, LAMBDA r : r.stmt = i) IN sel[1].fault

\* C30: the calls of WrappingErrorExample differ in filename only, and when
\* their reads of user_123.json meet the same thing they write the same
\* lines; with the file missing each writes the chain of ProcessUserData(123)
\* and 'File not found - using defaults'.
C30_FilenameIgnored ==
    /\ \A i \in WrappingStmts, j \in WrappingStmts :
          (ret.val.stmt > i /\ ret.val.stmt > j /\ FaultAt(i) = FaultAt(j))
             => Lines(i) = Lines(j)
    /\ \A i \in WrappingStmts :
          (ret.val.stmt > i /\ FaultAt(i) = ENOENT)
             => Lines(i) = <<"Full error chain: failed to process user 123: failed to load config for user 123: failed to read config file user_123.json: open user_123.json: no such file or directory",
                             "File not found - using defaults">>

\* both calls, for 'non_existent_file.txt' and for 'valid_file.txt', have
\* returned after reporting the missing file
C30_Witness ==
    /\ ret.val.stmt = 9
    /\ MainProgram[7].arg = StrArg("non_existent_file.txt")
    /\ MainProgram[8].arg = StrArg("valid_file.txt")
    /\ FaultAt(7) = ENOENT
    /\ FaultAt(8) = ENOENT
    /\ Lines(8) = Lines(7)
    /\ Lines(8)[2] = "File not found - using defaults"
\* ProcessUserData has just returned for a file that does not exist
MissingFileReturned == ret.op = "ProcessUserData" /\ ret.val.fault = ENOENT

\* C28 as stated: some element of the chain of the error ProcessUserData
\* returns for a missing file is os.ErrNotExist itself.
C28_IdentityMatchFinds ==
    MissingFileReturned => ErrNotExist \in ChainSet(heap, ret.err)

\* C28: no element of that chain is os.ErrNotExist itself; errors.Is matches
\* because the last element, a syscall.Errno, has an Is method that answers
\* true for os.ErrNotExist.
C28_MatchIsByIsMethod ==
    /\ MissingFileReturned =>
          /\ ret.err # Nil
          /\ ErrNotExist \notin ChainSet(heap, ret.err)
          /\ \A e \in ChainSet(heap, ret.err) : ~SameError(e, ErrNotExist)
          /\ IsMethod(heap, Root(heap, ret.err), ErrNotExist)
          /\ Is(heap, ret.err, ErrNotExist)
    /\ (ret.op = "Is" /\ ret.target = ErrNotExist /\ MissingFile)
          => (ret.val = TRUE /\ ErrNotExist \notin ChainSet(heap, ret.err))

\* errors.Is answered true for os.ErrNotExist on a chain of five that does
\* not hold it
C28_Witness ==
    /\ ret.op = "Is"
    /\ ret.target = ErrNotExist
    /\ ret.val = TRUE
    /\ Len(Chain(heap, ret.err)) = 5
    /\ ErrNotExist \notin ChainSet(heap, ret.err)
    /\ Root(heap, ret.err) = ENOENT

\* the text ValidateAge gives for an age, by the rule it broke
AgeText(age, rule) == "invalid age: " \o DecimalText(age) \o ". " \o rule

\* C29: for a user with an email, ValidateUser rejects exactly when
\* ValidateAge rejects the user's Age, with code 2001 exactly when ValidateAge
\* says 'Age cannot be negative' and code 2002 exactly when it says 'Age
\* cannot be greater than 130'.
C29_SameAgeRule ==
    /\ (ret.op = "ValidateUser" /\ ret.val.Email # "") =>
          LET a == ValidateAge(StaticHeap, ret.val.Age)
              age == ret.val.Age
          IN  /\ (ret.err # Nil) = (a.err # Nil)
              /\ (ret.err # Nil /\ heap[ret.err].Code = 2001)
                   = (a.err # Nil /\ ErrorText(a.heap, a.err)
                                       = AgeText(age, "Age cannot be negative"))
              /\ (ret.err # Nil /\ heap[ret.err].Code = 2002)
                   = (a.err # Nil /\ ErrorText(a.heap, a.err)
                                       = AgeText(age, "Age cannot be greater than 130"))
    /\ ret.op = "ValidateAge" =>
          \A email \in Emails \ {""} :
             LET u == ValidateUser(StaticHeap, [ID |-> 1, Email |-> email, Age |-> ret.val])
             IN  /\ (ret.err # Nil) = (u.err # Nil)
                 /\ (ret.err # Nil /\ ErrorText(heap, ret.err)
                                        = AgeText(ret.val, "Age cannot be negative"))
                      = (u.err # Nil /\ u.heap[u.err].Code = 2001)
                 /\ (ret.err # Nil /\ ErrorText(heap, ret.err)
                                        = AgeText(ret.val, "Age cannot be greater than 130"))
                      = (u.err # Nil /\ u.heap[u.err].Code = 2002)

\* a user aged 131 with an email was rejected with code 2002
C29_Witness ==
    /\ ret.op = "ValidateUser"
    /\ ret.val.Age = 131
    /\ ret.val.Email = "test@example.com"
    /\ ret.err # Nil
    /\ heap[ret.err].Code = 2002
    /\ ValidateAge(StaticHeap, 131).err # Nil
====
